---- MODULE Spec2Model ----
\* Verification model of SprintReport/sprint_report.py (sprint-report).
\*
\* Text is modelled as a sequence of one-character strings, so that
\* splitting, searching and natural-order comparison are computed character
\* by character.  Python's None is the one-element sequence <<"None">>, which
\* no character string equals.  A raised exception is a record
\* [status |-> "raise", exc |-> <name>].  The module is read as Python 3.12
\* reads it (the nested quotes of line 197 are a syntax error before 3.12).
EXTENDS Integers, Sequences, FiniteSets, TLC

VARIABLES
    \* find_unique_assignee_names
    nIssues,          \* the assignee field of each issue passed in
    collapse_surname, \* the collapse_surname argument
    nResult,          \* what the call produced
    nPc,
    \* JiraIssue.render_issue
    rIssue,           \* the issue rendered
    rMapping,         \* the assignee mapping applied before rendering
    rLine,            \* the line produced
    rPc,
    \* find_issue_in_jira_sprint
    jira_api,         \* the client argument
    project,          \* the project argument
    fPc,
    issue_index,
    requests,         \* startAt of every search_issues call, in order
    received,         \* records of the non-empty pages, in order received
    pending,          \* records of the current page not yet processed
    epics,            \* the epic title cache
    issueCalls,       \* argument of every jira_api.issue call, in order
    found_issues,
    emptyAt,          \* requests and issue calls made when a page came back empty
    \* main / print_jira_report
    entry,            \* "main" or "print_jira_report"
    sprint,           \* the module global sprint
    issues,           \* the issue list handed to the report builder
    assignee_names,   \* the alias mapping handed to the report builder
    sortedIssues,     \* issues after natsorted
    cursor,           \* index of the next issue of the loop
    parent,           \* header cursor: current parent
    epic,             \* header cursor: current epic
    out,              \* lines printed so far
    mPc

nVars == <<nIssues, collapse_surname, nResult, nPc>>
rVars == <<rIssue, rMapping, rLine, rPc>>
fVars == <<jira_api, project, fPc, issue_index, requests, received, pending,
           epics, issueCalls, found_issues, emptyAt>>
mVars == <<entry, sprint, issues, assignee_names, sortedIssues, cursor,
           parent, epic, out, mPc>>
vars == <<nVars, rVars, fVars, mVars>>

-----------------------------------------------------------------------------
\* Text helpers

None == <<"None">>
Empty == <<>>

Raise(e) == [status |-> "raise", exc |-> e]
Return(v) == [status |-> "return", value |-> v]

Digits == {"0", "1", "2", "3", "4", "5", "6", "7", "8", "9"}

DigitVal(c) ==
    CASE c = "0" -> 0 [] c = "1" -> 1 [] c = "2" -> 2 [] c = "3" -> 3
      [] c = "4" -> 4 [] c = "5" -> 5 [] c = "6" -> 6 [] c = "7" -> 7
      [] c = "8" -> 8 [] c = "9" -> 9

IsSpace(c) == c = " "

Drop(s, n) == SubSeq(s, n + 1, Len(s))
Take(s, n) == SubSeq(s, 1, n)

RECURSIVE SkipWs(_)
SkipWs(s) == IF s # <<>> /\ IsSpace(s[1]) THEN SkipWs(Tail(s)) ELSE s

RECURSIVE WordLen(_)
WordLen(s) == IF s = <<>> \/ IsSpace(s[1]) THEN 0 ELSE 1 + WordLen(Tail(s))

\* str.split(): the whitespace-separated words
RECURSIVE Split(_)
Split(s) ==
    LET t == SkipWs(s) IN
    IF t = <<>> THEN <<>>
    ELSE <<Take(t, WordLen(t))>> \o Split(Drop(t, WordLen(t)))

\* str.split(maxsplit=1): the first word, then the rest with its leading
\* whitespace removed (left out when nothing remains)
SplitMax1(s) ==
    LET t == SkipWs(s)
        r == SkipWs(Drop(t, WordLen(t)))
    IN  IF t = <<>> THEN <<>>
        ELSE IF r = <<>> THEN <<Take(t, WordLen(t))>>
        ELSE <<Take(t, WordLen(t)), r>>

-----------------------------------------------------------------------------
\* find_unique_assignee_names

MariaSilva  == <<"M","a","r","i","a"," ","S","i","l","v","a">>
MariaSantos == <<"M","a","r","i","a"," ","S","a","n","t","o","s">>
MariaCosta  == <<"M","a","r","i","a"," ","C","o","s","t","a">>
AnaSilva    == <<"A","n","a"," ","S","i","l","v","a">>
AnaDeSouza  == <<"A","n","a"," ","d","e"," ","S","o","u","z","a">>
Cher        == <<"C","h","e","r">>

NamePool == {MariaSilva, MariaSantos, MariaCosta, AnaSilva, AnaDeSouza, Cher}

MaxAssigned == 3

SeqsUpTo(S, n) == UNION {[1..k -> S] : k \in 0..n}

to_name(name) ==
    LET names == SplitMax1(name)
    IN  <<names[1], IF Drop(names, 1) = <<>> THEN Empty ELSE names[2]>>

all_assignees(iss) == {iss[i] : i \in {j \in DOMAIN iss : iss[j] # None /\ iss[j] # Empty}}

\* Counter(first_names)[f]
first_name_count(all, f) == Cardinality({n \in all : Split(n)[1] = f})

\* Counter(surname_initials)[p]
surname_inital_count(all, p) ==
    Cardinality({n \in all : <<to_name(n)[1], to_name(n)[2][1]>> = p})

\* the subscript surname_inital_count[(first_names, surname_inital_count[0])]:
\* the key is a tuple holding the list first_names, which cannot be hashed
surname_initial_lookup(all, name) == Raise("TypeError")

\* the value of one entry of unique_names
unique_name(all, name) ==
    LET first_name == to_name(name)[1]
        surname == to_name(name)[2]
        look == surname_initial_lookup(all, name)
    IN  IF first_name_count(all, first_name) = 1 THEN Return(first_name)
        ELSE IF surname = Empty THEN Return(name)
        ELSE IF look.status = "raise" THEN look
        ELSE IF look.value = 1
             THEN Return(first_name \o <<" ", surname[1]>>)
             ELSE Return(name)

find_unique_assignee_names(iss, collapse) ==
    LET all == all_assignees(iss)
        kept == {n \in all : to_name(n)[2] # Empty}
    IN  IF ~collapse THEN Return([n \in all |-> n])
        ELSE IF \E n \in all : Split(n) = <<>> THEN Raise("IndexError")
        ELSE IF \E n \in all : to_name(n)[2] = Empty THEN Raise("IndexError")
        ELSE IF \E n \in kept : unique_name(all, n).status = "raise"
             THEN Raise("TypeError")
        ELSE Return([n \in kept |-> unique_name(all, n).value])

NamesInit ==
    /\ nIssues \in SeqsUpTo(NamePool \cup {None}, MaxAssigned)
    /\ collapse_surname \in BOOLEAN
    /\ nResult = None
    /\ nPc = "call"
    \* the rest of the program is not running
    /\ rIssue = None /\ rMapping = <<>> /\ rLine = None /\ rPc = "idle"
    /\ jira_api = "client" /\ project = Empty /\ fPc = "idle"
    /\ issue_index = 0 /\ requests = <<>> /\ received = <<>> /\ pending = <<>>
    /\ epics = <<>> /\ issueCalls = <<>> /\ found_issues = <<>> /\ emptyAt = None
    /\ entry = "idle" /\ sprint = None /\ issues = <<>> /\ assignee_names = <<>>
    /\ sortedIssues = <<>> /\ cursor = 0 /\ parent = Empty /\ epic = Empty
    /\ out = <<>> /\ mPc = "idle"

Shorten ==
    /\ nPc = "call"
    /\ nResult' = find_unique_assignee_names(nIssues, collapse_surname)
    /\ nPc' = "done"
    /\ UNCHANGED <<nIssues, collapse_surname, rVars, fVars, mVars>>

-----------------------------------------------------------------------------
\* JiraIssue

jira_server == <<"h","t","t","p","s",":","/","/","j">>

NoEpic == <<"N","o"," ","e","p","i","c">>

JiraIssue(key, category, status, par, summary, ep, epic_name, assignee) ==
    [key |-> key, category |-> category, status |-> status, parent |-> par,
     summary |-> summary, epic |-> ep, epic_name |-> epic_name,
     assignee |-> assignee, assignee_short |-> None]

LP == <<"L","P","#">>

RECURSIVE DigitRun(_)
DigitRun(s) ==
    IF s # <<>> /\ s[1] \in Digits THEN <<s[1]>> \o DigitRun(Tail(s)) ELSE <<>>

StartsWith(s, p) == Len(s) >= Len(p) /\ Take(s, Len(p)) = p

\* re.search(r"LP#(\d+)", summary): group 1 of the leftmost match, "" if none
RECURSIVE get_bug_id(_)
get_bug_id(summary) ==
    IF summary = <<>> THEN Empty
    ELSE IF StartsWith(summary, LP) /\ DigitRun(Drop(summary, 3)) # <<>>
         THEN DigitRun(Drop(summary, 3))
         ELSE get_bug_id(Tail(summary))

\* re.sub(pat, repl, s) for a literal pattern: every non-overlapping
\* occurrence, leftmost first
RECURSIVE ReSub(_, _, _)
ReSub(pat, repl, s) ==
    IF s = <<>> THEN <<>>
    ELSE IF StartsWith(s, pat) THEN repl \o ReSub(pat, repl, Drop(s, Len(pat)))
    ELSE <<s[1]>> \o ReSub(pat, repl, Tail(s))

BugLink(bug_id) ==
    <<"[">> \o LP \o bug_id \o <<"]","(">>
        \o <<"h","t","t","p","s",":","/","/","p","a","d",".","l","v","/">>
        \o bug_id \o <<")">>

summary_with_bug_link(self) ==
    LET bug_id == get_bug_id(self.summary)
    IN  IF bug_id # Empty
        THEN ReSub(LP \o bug_id, BugLink(bug_id), self.summary)
        ELSE self.summary

key_to_md(key) ==
    <<"[">> \o key \o <<"]","(">> \o jira_server
        \o <<"/","b","r","o","w","s","e","/">> \o key \o <<")">>

markdown_key(self) == key_to_md(self.key)

\* dict.get: the value, or None for a missing key
DictGet(d, k) == IF k \in DOMAIN d THEN d[k] ELSE None

update_assignee(self, assignee_mapping) ==
    IF self.assignee # None /\ self.assignee # Empty
    THEN [self EXCEPT !.assignee_short = DictGet(assignee_mapping, self.assignee)]
    ELSE self

Truthy(s) == s # None /\ s # Empty

render_assignee(self) ==
    IF Truthy(self.assignee_short) THEN self.assignee_short
    ELSE IF Truthy(self.assignee) THEN self.assignee
    ELSE Empty

\* " : ".join(filter(None, parts))
RECURSIVE JoinNonEmpty(_)
JoinNonEmpty(parts) ==
    IF parts = <<>> THEN <<>>
    ELSE IF Head(parts) = <<>> THEN JoinNonEmpty(Tail(parts))
    ELSE LET rest == JoinNonEmpty(Tail(parts))
         IN  IF rest = <<>> THEN Head(parts)
             ELSE Head(parts) \o <<" ",":"," ">> \o rest

Contains(s, p) == \E i \in 0..(Len(s) - Len(p)) : SubSeq(s, i + 1, i + Len(p)) = p

BugForm(self) ==
    JoinNonEmpty(<< <<" ","-"," ">> \o summary_with_bug_link(self),
                    render_assignee(self) >>)

StandardForm(self) ==
    JoinNonEmpty(<< <<" ","-"," ","[">> \o self.status \o <<"]"," ">> \o self.category,
                    markdown_key(self),
                    self.summary,
                    render_assignee(self) >>)

render_issue(self) ==
    IF Contains(self.summary, LP) THEN BugForm(self) ELSE StandardForm(self)

\* Summaries are built from these pieces, at most MaxPieces of them
Pieces == {LP, <<"1">>, <<"2">>, <<"x">>, <<" ">>}

MaxPieces == 5

RECURSIVE Flatten(_)
Flatten(ss) == IF ss = <<>> THEN <<>> ELSE Head(ss) \o Flatten(Tail(ss))

KeyI9 == <<"I","-","9">>
KeyI10 == <<"I","-","1","0">>
KeyI2 == <<"I","-","2">>
Bug == <<"B","u","g">>
Done == <<"D","o","n","e">>
Maria == <<"M","a","r","i","a">>

RenderInit ==
    /\ \E ps \in SeqsUpTo(Pieces, MaxPieces), a \in {None, MariaSilva} :
          rIssue = JiraIssue(KeyI9, Bug, Done, Empty, Flatten(ps), Empty, NoEpic, a)
    /\ rMapping \in {<<>>, [n \in {MariaSilva} |-> Maria]}
    /\ rLine = None
    /\ rPc = "call"
    \* the rest of the program is not running
    /\ nIssues = <<>> /\ collapse_surname = TRUE /\ nResult = None /\ nPc = "idle"
    /\ jira_api = "client" /\ project = Empty /\ fPc = "idle"
    /\ issue_index = 0 /\ requests = <<>> /\ received = <<>> /\ pending = <<>>
    /\ epics = <<>> /\ issueCalls = <<>> /\ found_issues = <<>> /\ emptyAt = None
    /\ entry = "idle" /\ sprint = None /\ issues = <<>> /\ assignee_names = <<>>
    /\ sortedIssues = <<>> /\ cursor = 0 /\ parent = Empty /\ epic = Empty
    /\ out = <<>> /\ mPc = "idle"

\* what the loop body of print_jira_report does to one issue (lines 201-204)
RenderIssue ==
    /\ rPc = "call"
    /\ LET upd == IF DOMAIN rMapping # {} THEN update_assignee(rIssue, rMapping)
                  ELSE rIssue
       IN  /\ rIssue' = upd
           /\ rLine' = render_issue(upd)
    /\ rPc' = "done"
    /\ UNCHANGED <<rMapping, nVars, fVars, mVars>>

-----------------------------------------------------------------------------
\* find_issue_in_jira_sprint

issue_batch == 50

MaxPages == 2    \* non-empty pages the tracker returns at most
MaxPageLen == 2  \* records on one page at most

EpicE1 == <<"E","-","1">>
ParentP1 == <<"P","-","1">>
NoAttr == <<"AttributeError">>
Story == <<"S","t","o","r","y">>
Project == <<"P","R","J">>
SprintName == <<"S","1">>

\* the decimal digits of n
RECURSIVE DigitsOf(_)
DigitsOf(n) ==
    LET d == <<"0","1","2","3","4","5","6","7","8","9">>
    IN  IF n < 10 THEN <<d[n + 1]>> ELSE DigitsOf(n \div 10) \o <<d[(n % 10) + 1]>>

\* a raw record of the tracker; the n-th record of a run has key I-<n>
Record(n, par, link) ==
    [key |-> <<"I","-">> \o DigitsOf(n), summary |-> <<"x">>, parent |-> par,
     customfield_10014 |-> link, issuetype |-> Story, status |-> Done,
     assignee |-> None]

\* parent and epic link of the records the tracker holds
RecordKinds == {<<NoAttr, None>>, <<ParentP1, EpicE1>>}

\* the pages search_issues may return once n records have been received
Pages(n) ==
    UNION {{[i \in 1..k |-> Record(n + i, f[i][1], f[i][2])] :
               f \in [1..k -> RecordKinds]} :
           k \in 0..MaxPageLen}

\* jira_api.issue(id).fields.summary: the title, or JIRAError; an id of None
\* names no issue
EpicTitle(id) == <<"t">> \o id
IssueOutcomes(id) == IF id = None THEN {"JIRAError"} ELSE {"ok", "JIRAError"}

StartIndexOffByOne(index) == (index + 1) * issue_batch
StartIndex(index) == index * issue_batch

\* lines 107-111: the cache after looking up epic_link
ResolveEpicNoSentinel(cache, epic_link, outcome) ==
    IF epic_link \in DOMAIN cache THEN cache
    ELSE cache @@ (epic_link :> IF outcome = "ok" THEN EpicTitle(epic_link) ELSE None)
ResolveEpic(cache, epic_link, outcome) ==
    IF epic_link \in DOMAIN cache THEN cache
    ELSE cache @@ (epic_link :> IF outcome = "ok" THEN EpicTitle(epic_link) ELSE NoEpic)

\* lines 101-105 and 113-122: the JiraIssue built from a record
Materialize(issue, cache) ==
    JiraIssue(issue.key, issue.issuetype, issue.status,
              IF issue.parent = NoAttr THEN Empty ELSE issue.parent,
              issue.summary, issue.customfield_10014,
              cache[issue.customfield_10014], issue.assignee)

FetchInit ==
    /\ jira_api \in {"None", "client"}
    /\ project \in {Empty, Project}
    /\ fPc = "enter"
    /\ issue_index = 0 /\ requests = <<>> /\ received = <<>> /\ pending = <<>>
    /\ epics = <<>> /\ issueCalls = <<>> /\ found_issues = <<>>
    /\ emptyAt = None
    \* the rest of the program is not running
    /\ nIssues = <<>> /\ collapse_surname = TRUE /\ nResult = None /\ nPc = "idle"
    /\ rIssue = None /\ rMapping = <<>> /\ rLine = None /\ rPc = "idle"
    /\ entry = "idle" /\ sprint = None /\ issues = <<>> /\ assignee_names = <<>>
    /\ sortedIssues = <<>> /\ cursor = 0 /\ parent = Empty /\ epic = Empty
    /\ out = <<>> /\ mPc = "idle"

\* lines 78-85
Enter ==
    /\ fPc = "enter"
    /\ fPc' = IF jira_api = "None" \/ project = Empty THEN "done" ELSE "search"
    /\ issue_index' = 0
    /\ found_issues' = <<>>
    /\ UNCHANGED <<jira_api, project, requests, received, pending, epics,
                   issueCalls, emptyAt, nVars, rVars, mVars>>

\* lines 88-98: one search_issues call and what the loop does with the page
SearchIssues ==
    /\ fPc = "search"
    /\ requests' = Append(requests, StartIndex(issue_index))
    /\ \/ \E issues_ \in Pages(Len(received)) :
            /\ issue_index >= MaxPages => issues_ = <<>>
            /\ IF issues_ = <<>>
               THEN /\ fPc' = "done"
                    /\ emptyAt' = <<Len(requests'), Len(issueCalls)>>
                    /\ UNCHANGED <<issue_index, epics, pending, received>>
               ELSE /\ issue_index' = issue_index + 1
                    /\ epics' = <<>>
                    /\ pending' = issues_
                    /\ received' = received \o issues_
                    /\ fPc' = "process"
                    /\ UNCHANGED emptyAt
       \/ \* the search itself fails: nothing catches it
          /\ fPc' = "raised"
          /\ UNCHANGED <<issue_index, epics, pending, received, emptyAt>>
    /\ UNCHANGED <<jira_api, project, issueCalls, found_issues, nVars, rVars, mVars>>

\* lines 100-122: one iteration of the loop over the page
ProcessIssue ==
    /\ fPc = "process"
    /\ LET issue == Head(pending)
           epic_link == issue.customfield_10014
       IN  \E outcome \in IssueOutcomes(epic_link) :
             /\ epics' = ResolveEpic(epics, epic_link, outcome)
             /\ issueCalls' =
                  IF epic_link \in DOMAIN epics THEN issueCalls
                  ELSE Append(issueCalls, [id |-> epic_link, outcome |-> outcome,
                                           at |-> Len(found_issues) + 1])
             /\ found_issues' = Append(found_issues, Materialize(issue, epics'))
    /\ pending' = Tail(pending)
    /\ fPc' = IF pending' = <<>> THEN "search" ELSE "process"
    /\ UNCHANGED <<jira_api, project, issue_index, requests, received, emptyAt,
                   nVars, rVars, mVars>>

FetchNext == Enter \/ SearchIssues \/ ProcessIssue

-----------------------------------------------------------------------------
\* natsorted(issues, key=lambda i: (i.parent, i.epic, i.key))

\* the characters in code-point order
Ascii == <<" ", "#", "(", ")", "-", ".", "/",
           "0", "1", "2", "3", "4", "5", "6", "7", "8", "9", ":",
           "A", "B", "C", "D", "E", "I", "J", "L", "M", "N", "P", "R", "S", "[", "]",
           "a", "b", "c", "d", "e", "h", "i", "l", "n", "o", "p", "r", "s",
           "t", "u", "v", "w", "x", "y", "z">>

Code(c) == CHOOSE i \in 1..Len(Ascii) : Ascii[i] = c

Sign(n) == IF n < 0 THEN -1 ELSE IF n > 0 THEN 1 ELSE 0

\* str < str
RECURSIVE StrCmp(_, _)
StrCmp(a, b) ==
    IF a = <<>> /\ b = <<>> THEN 0
    ELSE IF a = <<>> THEN -1
    ELSE IF b = <<>> THEN 1
    ELSE IF a[1] # b[1] THEN Sign(Code(a[1]) - Code(b[1]))
    ELSE StrCmp(Tail(a), Tail(b))

RECURSIVE IntOf(_)
IntOf(ds) == IF ds = <<>> THEN 0 ELSE IntOf(Take(ds, Len(ds) - 1)) * 10 + DigitVal(ds[Len(ds)])

RECURSIVE TextRun(_)
TextRun(s) ==
    IF s # <<>> /\ s[1] \notin Digits THEN <<s[1]>> \o TextRun(Tail(s)) ELSE <<>>

StrPart(t) == [str |-> TRUE, text |-> t, num |-> 0]
NumPart(n) == [str |-> FALSE, text |-> <<>>, num |-> n]

\* the string split at its digit runs, the digit runs as integers
RECURSIVE Chunks(_)
Chunks(s) ==
    IF s = <<>> THEN <<>>
    ELSE IF s[1] \in Digits
         THEN <<NumPart(IntOf(DigitRun(s)))>> \o Chunks(Drop(s, Len(DigitRun(s))))
         ELSE <<StrPart(TextRun(s))>> \o Chunks(Drop(s, Len(TextRun(s))))

\* natsort's key of one tuple field: a leading number gets an empty string
\* in front; None is keyed as the number minus infinity (-1 here, below
\* every number of a string)
natsort_key_lexical(val) ==
    IF val = None THEN <<StrPart(<<>>), NumPart(-1)>>
    ELSE IF val = <<>> THEN <<>> ELSE <<StrPart(val)>>
natsort_key(val) ==
    IF val = None THEN <<StrPart(<<>>), NumPart(-1)>>
    ELSE LET c == Chunks(val)
         IN  IF c # <<>> /\ ~c[1].str THEN <<StrPart(<<>>)>> \o c ELSE c

PartCmp(x, y) == IF x.str THEN StrCmp(x.text, y.text) ELSE Sign(x.num - y.num)

RECURSIVE KeyCmp(_, _)
KeyCmp(a, b) ==
    IF a = <<>> /\ b = <<>> THEN 0
    ELSE IF a = <<>> THEN -1
    ELSE IF b = <<>> THEN 1
    ELSE IF PartCmp(a[1], b[1]) # 0 THEN PartCmp(a[1], b[1])
    ELSE KeyCmp(Tail(a), Tail(b))

\* comparison of the keys of (i.parent, i.epic, i.key)
IssueCmp(i, j) ==
    IF KeyCmp(natsort_key(i.parent), natsort_key(j.parent)) # 0
    THEN KeyCmp(natsort_key(i.parent), natsort_key(j.parent))
    ELSE IF KeyCmp(natsort_key(i.epic), natsort_key(j.epic)) # 0
    THEN KeyCmp(natsort_key(i.epic), natsort_key(j.epic))
    ELSE KeyCmp(natsort_key(i.key), natsort_key(j.key))

\* x put after the elements of the sorted list that are not greater
InsertSorted(sorted, x) ==
    LET n == Cardinality({k \in DOMAIN sorted : IssueCmp(sorted[k], x) <= 0})
    IN  Take(sorted, n) \o <<x>> \o Drop(sorted, n)

\* sorted() is stable
RECURSIVE natsorted(_)
natsorted(xs) ==
    IF xs = <<>> THEN <<>>
    ELSE InsertSorted(natsorted(Take(xs, Len(xs) - 1)), xs[Len(xs)])

-----------------------------------------------------------------------------
\* main and print_jira_report

MaxIssues == 2   \* issues handed to the report builder at most

ReportKeys == {KeyI2, KeyI9, KeyI10}

BugSummary == <<"f","i","x"," ","L","P","#","1","2">>

\* an issue as the fetch builds it; summary and assignee go with the key
ReportIssue(key, par, ep) ==
    JiraIssue(key, Story, Done, par,
              IF key = KeyI2 THEN BugSummary ELSE <<"x">>,
              ep,
              IF ep \in {None, Empty} THEN NoEpic ELSE EpicTitle(ep),
              IF key = KeyI9 THEN MariaSilva ELSE None)

ReportIssues ==
    {ReportIssue(k, p, e) : k \in ReportKeys, p \in {Empty, ParentP1},
                            e \in {None, Empty, EpicE1, ParentP1}}

IssueLists ==
    {l \in SeqsUpTo(ReportIssues, MaxIssues) :
        \A i, j \in DOMAIN l : i # j => l[i].key # l[j].key}

Line(kind, text, key) == [kind |-> kind, text |-> text, key |-> key]

\* line 185
HeaderLine(proj, spr) ==
    Line("h1", <<"#"," ">> \o proj \o <<" ">> \o spr \o <<" ","r","e","p","o","r","t">>, Empty)

\* lines 240-242
CountLine(iss) ==
    Line("count",
         <<"F","o","u","n","d"," ">> \o DigitsOf(Len(iss)) \o <<" ","i","s","s","u","e">>
            \o (IF Len(iss) > 1 THEN <<"s">> ELSE <<>>)
            \o <<" ","i","n"," ","J","I","R","A","\n">>,
         Empty)

\* line 192
ParentHeading(par, parent_summary) ==
    Line("h2", <<"\n","#","#"," ">> \o key_to_md(par) \o <<":"," ">> \o parent_summary, par)

\* line 197: issues is a list and issue a JiraIssue, so issues[issue] raises
EpicHeading(iss, issue) == Raise("TypeError")

\* line 199
NoEpicHeading ==
    Line("h3", <<"\n","#","#","#"," ">>
               \o <<"I","s","s","u","e","s"," ","w","i","t","h","o","u","t"," ","a","n"," ","e","p","i","c">>,
         Empty)

\* line 204
IssueLine(issue) == Line("issue", render_issue(issue), issue.key)

\* line 238: args is the argument list (or None), not the parsed options
SkipNames == Raise("AttributeError")

AssigneesOf(iss) == [i \in DOMAIN iss |-> iss[i].assignee]

ReportInit ==
    /\ entry \in {"main", "print_jira_report"}
    /\ issues \in IssueLists
    /\ IF entry = "main"
       THEN sprint = None /\ assignee_names = <<>> /\ mPc = "main"
       ELSE /\ sprint \in {None, SprintName}
            /\ assignee_names \in {<<>>, [n \in {MariaSilva} |-> Maria]}
            /\ mPc = "report"
    /\ sortedIssues = <<>> /\ cursor = 0 /\ parent = Empty /\ epic = Empty
    /\ out = <<>>
    \* the rest of the program is not running
    /\ nIssues = <<>> /\ collapse_surname = TRUE /\ nResult = None /\ nPc = "idle"
    /\ rIssue = None /\ rMapping = <<>> /\ rLine = None /\ rPc = "idle"
    /\ jira_api = "client" /\ project = Empty /\ fPc = "idle"
    /\ issue_index = 0 /\ requests = <<>> /\ received = <<>> /\ pending = <<>>
    /\ epics = <<>> /\ issueCalls = <<>> /\ found_issues = <<>> /\ emptyAt = None

\* lines 235-244, issues being what find_issue_in_jira_sprint returned
Main ==
    /\ mPc = "main"
    /\ sprint' = SprintName
    /\ IF SkipNames.status = "raise"
       THEN mPc' = SkipNames.exc /\ UNCHANGED <<assignee_names, out>>
       ELSE LET assignees == IF SkipNames.value THEN Return(<<>>)
                             ELSE find_unique_assignee_names(AssigneesOf(issues), TRUE)
            IN  IF assignees.status = "raise"
                THEN mPc' = assignees.exc /\ UNCHANGED <<assignee_names, out>>
                ELSE /\ assignee_names' = assignees.value
                     /\ out' = Append(out, CountLine(issues))
                     /\ mPc' = "report"
    /\ UNCHANGED <<entry, issues, sortedIssues, cursor, parent, epic,
                   nVars, rVars, fVars>>

\* lines 179-187
ReportStart ==
    /\ mPc = "report"
    /\ IF issues = <<>>
       THEN mPc' = "done" /\ UNCHANGED <<out, sortedIssues, cursor>>
       ELSE IF sprint = None
       THEN mPc' = "NameError" /\ UNCHANGED <<out, sortedIssues, cursor>>
       ELSE /\ out' = Append(out, HeaderLine(Project, sprint))
            /\ sortedIssues' = natsorted(issues)
            /\ cursor' = 1
            /\ mPc' = "loop"
    /\ parent' = Empty
    /\ epic' = Empty
    /\ UNCHANGED <<entry, sprint, issues, assignee_names, nVars, rVars, fVars>>

\* lines 188-204: one iteration of the loop
ReportLoop ==
    /\ mPc = "loop"
    /\ LET issue == sortedIssues[cursor]
           newParent == issue.parent # parent
           newEpic == issue.epic # epic
           shown == IF DOMAIN assignee_names # {}
                    THEN update_assignee(issue, assignee_names) ELSE issue
       IN  \E lookup \in {"ok", "JIRAError"} :
             /\ newParent \/ lookup = "ok"
             /\ parent' = issue.parent
             /\ IF newParent /\ lookup = "JIRAError"
                THEN \* jira_api.issue(parent) fails: nothing catches it
                     /\ mPc' = "JIRAError"
                     /\ UNCHANGED <<out, epic, cursor, sortedIssues>>
                ELSE LET out1 == IF newParent
                                 THEN Append(out, ParentHeading(issue.parent, EpicTitle(issue.parent)))
                                 ELSE out
                     IN  /\ epic' = issue.epic
                         /\ IF newEpic /\ Truthy(issue.epic) /\ issue.epic # issue.parent
                               /\ EpicHeading(sortedIssues, issue).status = "raise"
                            THEN /\ mPc' = EpicHeading(sortedIssues, issue).exc
                                 /\ out' = out1
                                 /\ UNCHANGED <<cursor, sortedIssues>>
                            ELSE LET out2 ==
                                       IF ~newEpic THEN out1
                                       ELSE IF Truthy(issue.epic)
                                       THEN IF issue.epic # issue.parent
                                            THEN Append(out1, EpicHeading(sortedIssues, issue).value)
                                            ELSE out1
                                       ELSE Append(out1, NoEpicHeading)
                                 IN  /\ out' = Append(out2, IssueLine(shown))
                                     /\ sortedIssues' = [sortedIssues EXCEPT ![cursor] = shown]
                                     /\ cursor' = cursor + 1
                                     /\ mPc' = IF cursor = Len(sortedIssues)
                                               THEN "done" ELSE "loop"
    /\ UNCHANGED <<entry, sprint, issues, assignee_names, nVars, rVars, fVars>>

Exceptions == {"AttributeError", "IndexError", "JIRAError", "NameError", "TypeError"}

ReportNext == Main \/ ReportStart \/ ReportLoop

-----------------------------------------------------------------------------
\* Specifications, one per part of the program

NamesSpec ==
    /\ NamesInit
    /\ [][Shorten]_vars

RenderSpec ==
    /\ RenderInit
    /\ [][RenderIssue]_vars

FetchSpec ==
    /\ FetchInit
    /\ [][FetchNext]_vars

\* the interpreter keeps running the call until it returns or raises
FetchLive == FetchSpec /\ WF_vars(FetchNext)

ReportSpec ==
    /\ ReportInit
    /\ [][ReportNext]_vars

-----------------------------------------------------------------------------
\* Properties of find_unique_assignee_names

Shortened == nPc = "done" /\ collapse_surname

\* C1: for every set of distinct full names the name shortener
\* (collapse_surname=True) returns a mapping in which no two names have the
\* same alias.
C1_AliasesDistinct ==
    (Shortened /\ \A n \in all_assignees(nIssues) : Len(Split(n)) > 1) =>
        /\ nResult.status = "return"
        /\ \A a, b \in DOMAIN nResult.value :
              a # b => nResult.value[a] # nResult.value[b]

GivenName(n) == Split(n)[1]
Surnamed(all) == {n \in all : Len(Split(n)) > 1}
Initial(n) == Split(n)[2][1]

\* the alias section 4.1 of the specification prescribes
SpecAlias(all, n) ==
    IF Cardinality({m \in all : GivenName(m) = GivenName(n)}) = 1
    THEN GivenName(n)
    ELSE IF /\ n \in Surnamed(all)
            /\ Cardinality({m \in Surnamed(all) :
                   GivenName(m) = GivenName(n) /\ Initial(m) = Initial(n)}) = 1
    THEN GivenName(n) \o <<" ", Initial(n), ".">>
    ELSE n

\* C2: every name of the input set is mapped to its given name when that
\* given name occurs once, else to "Given I." when the (given name, surname
\* initial) pair occurs once, else to itself.
C2_SpecifiedAlias ==
    Shortened =>
        /\ nResult.status = "return"
        /\ \A n \in all_assignees(nIssues) :
              /\ n \in DOMAIN nResult.value
              /\ nResult.value[n] = SpecAlias(all_assignees(nIssues), n)

\* C3: with a single-word name in the input set the shortener returns
\* normally, the mapping has an entry for every name of the set, and the
\* single-word name is mapped to itself.
C3_SingleWordName ==
    (Shortened /\ \E n \in all_assignees(nIssues) : Len(Split(n)) = 1) =>
        /\ nResult.status = "return"
        /\ DOMAIN nResult.value = all_assignees(nIssues)
        /\ \A n \in all_assignees(nIssues) :
              Len(Split(n)) = 1 => nResult.value[n] = n

-----------------------------------------------------------------------------
\* Properties of JiraIssue.render_issue

\* the text before the leftmost LP#<digits>
RECURSIVE BeforeReference(_)
BeforeReference(s) ==
    IF StartsWith(s, LP) /\ DigitRun(Drop(s, 3)) # <<>> THEN <<>>
    ELSE <<s[1]>> \o BeforeReference(Tail(s))

\* the summary with its leftmost reference, and nothing else, made a link
OneReferenceRewritten(s) ==
    LET pre == BeforeReference(s)
        id == get_bug_id(s)
    IN  pre \o BugLink(id) \o Drop(s, Len(pre) + 3 + Len(id))

\* C7: the line is in the bug-reference form exactly when the summary holds
\* LP#<digits>, the text around the rewritten reference being unchanged;
\* every other summary is rendered in the standard form.
C7_BugFormIffReference ==
    rPc = "done" =>
        IF get_bug_id(rIssue.summary) # Empty
        THEN rLine = JoinNonEmpty(<< <<" ","-"," ">> \o OneReferenceRewritten(rIssue.summary),
                                     render_assignee(rIssue) >>)
        ELSE rLine = StandardForm(rIssue)

-----------------------------------------------------------------------------
\* Properties of find_issue_in_jira_sprint

\* C5: during one run the title of each distinct epic id is looked up at
\* most once, whichever pages the issues referencing it arrive on.
C5_EpicResolvedOnce ==
    \A i, j \in DOMAIN issueCalls :
        (i # j /\ issueCalls[i].id # None) => issueCalls[i].id # issueCalls[j].id

\* C9: every issue built has a non-null epicName; a failed epic lookup does
\* not abort the fetch: the issue it was made for is built with epicName
\* "No epic", and every record taken from a page is built.
C9_EpicNamePopulated ==
    /\ \A i \in DOMAIN found_issues : found_issues[i].epic_name # None
    /\ \A c \in DOMAIN issueCalls :
          issueCalls[c].outcome = "JIRAError" =>
              /\ issueCalls[c].at \in DOMAIN found_issues
              /\ found_issues[issueCalls[c].at].epic = issueCalls[c].id
              /\ found_issues[issueCalls[c].at].epic_name = NoEpic
    /\ Len(found_issues) = Len(received) - Len(pending)
    /\ fPc = "raised" => pending = <<>>
    /\ (fPc = "done" /\ requests # <<>>) => Len(found_issues) = Len(received)

C9_Witness ==
    /\ fPc = "done"
    /\ Len(requests) = 3
    /\ \E c \in DOMAIN issueCalls :
          /\ issueCalls[c].outcome = "JIRAError"
          /\ issueCalls[c].id # None
          /\ issueCalls[c].at = 1
    /\ Len(found_issues) >= 3

C10_Safe ==
    /\ \A k \in DOMAIN requests : requests[k] = 50 * (k - 1)
    /\ emptyAt # None =>
          /\ fPc = "done"
          /\ Len(requests) = emptyAt[1]
          /\ Len(issueCalls) = emptyAt[2]
    /\ (fPc = "done" /\ requests # <<>>) =>
          /\ emptyAt # None
          /\ Len(found_issues) = Len(received)
          /\ \A i \in DOMAIN received :
                /\ found_issues[i].key = received[i].key
                /\ found_issues[i].epic = received[i].customfield_10014
    /\ (fPc = "done" /\ requests = <<>>) => found_issues = <<>>

\* C10: pages are requested at offsets 0, 50, 100, ... in order; after the
\* first empty page no request is made and the result holds one issue per
\* record received, in order; and the fetch ends when the tracker stops
\* returning records.
C10_Paging == []C10_Safe /\ <>(fPc \in {"done", "raised"})

C10_Witness ==
    /\ fPc = "done"
    /\ requests = <<0, 50, 100>>
    /\ Len(found_issues) = Len(received)
    /\ Len(received) >= 3

-----------------------------------------------------------------------------
\* Properties of main and print_jira_report

Ended == mPc = "done" \/ mPc \in Exceptions

Kinds(k) == SelectSeq(out, LAMBDA l : l.kind = k)

\* two issues with one non-empty parent, one without an epic and one with
\* an epic that is not the parent
TwoEpicsOneParent ==
    /\ entry = "print_jira_report" /\ sprint # None
    /\ Len(issues) = 2
    /\ Truthy(issues[1].parent) /\ issues[1].parent = issues[2].parent
    /\ \E i, j \in 1..2 :
          /\ ~Truthy(issues[i].epic)
          /\ Truthy(issues[j].epic) /\ issues[j].epic # issues[j].parent

\* C4: for two issues with the same non-empty parent and different epics,
\* one of them empty, the report has exactly one level-2 parent heading,
\* followed by exactly two distinct level-3 headings, one of which is
\* "Issues without an epic".
C4_GroupHeadings ==
    (TwoEpicsOneParent /\ Ended /\ mPc # "JIRAError") =>
        /\ Len(Kinds("h2")) = 1
        /\ Len(Kinds("h3")) = 2
        /\ Kinds("h3")[1] # Kinds("h3")[2]
        /\ \E i \in 1..2 : Kinds("h3")[i] = NoEpicHeading
        /\ \A i, j \in DOMAIN out :
              (out[i].kind = "h2" /\ out[j].kind = "h3") => i < j

\* C6: the output of a run over a non-empty sprint starts with the header
\* line, then has the count line, and everything after is the grouped body.
C6_HeaderThenCount ==
    (entry = "main" /\ Ended /\ issues # <<>>) =>
        /\ Len(out) >= 2
        /\ out[1] = HeaderLine(Project, SprintName)
        /\ out[2] = CountLine(issues)
        /\ \A i \in 3..Len(out) : out[i].kind \in {"h2", "h3", "issue"}

\* Natural order, stated on the characters: runs of digits compare as
\* numbers (leading zeros dropped, then the longer is the larger, then digit
\* by digit), other characters by code point, a digit run before text.
\* A null field stands between the empty string and every other string.
RECURSIVE StripZeros(_)
StripZeros(ds) == IF Len(ds) > 1 /\ ds[1] = "0" THEN StripZeros(Tail(ds)) ELSE ds

NumLess(da, db) ==
    LET a == StripZeros(da)
        b == StripZeros(db)
    IN  \/ Len(a) < Len(b)
        \/ Len(a) = Len(b) /\ StrCmp(a, b) < 0

RECURSIVE NaturalLess(_, _)
NaturalLess(a, b) ==
    IF b = <<>> THEN FALSE
    ELSE IF a = <<>> THEN TRUE
    ELSE IF a[1] \in Digits /\ b[1] \in Digits
    THEN LET da == DigitRun(a)
             db == DigitRun(b)
         IN  \/ NumLess(da, db)
             \/ /\ ~NumLess(db, da)
                /\ NaturalLess(Drop(a, Len(da)), Drop(b, Len(db)))
    ELSE IF a[1] \in Digits THEN TRUE
    ELSE IF b[1] \in Digits THEN FALSE
    ELSE LET ta == TextRun(a)
             tb == TextRun(b)
         IN  \/ StrCmp(ta, tb) < 0
             \/ ta = tb /\ NaturalLess(Drop(a, Len(ta)), Drop(b, Len(tb)))

FieldLess(a, b) ==
    IF a = None THEN b # None /\ b # <<>>
    ELSE IF b = None THEN a = <<>>
    ELSE NaturalLess(a, b)

TripleLess(i, j) ==
    \/ FieldLess(i.parent, j.parent)
    \/ /\ ~FieldLess(j.parent, i.parent)
       /\ \/ FieldLess(i.epic, j.epic)
          \/ ~FieldLess(j.epic, i.epic) /\ FieldLess(i.key, j.key)

IssueOfKey(k) == issues[CHOOSE i \in DOMAIN issues : issues[i].key = k]

====
